---- MODULE Spec2Model ----
(***************************************************************************)
(* ScenePulse backend (src/backend/main.py): run registration with signed  *)
(* upload URLs, the Firestore "runs" collection, and the read endpoints.   *)
(*                                                                         *)
(* Strings that the code inspects character by character (filenames, the   *)
(* phone number) are sequences of one-character strings; strings the code  *)
(* only concatenates are sequences of tokens.  The external collaborators  *)
(* (GCS signing, Firestore, the wall clock, uuid4) are nondeterministic.   *)
(***************************************************************************)
EXTENDS Integers, Sequences, FiniteSets, TLC

\* ------------------------------------------------------------------------
\* Bounds of the model
\* ------------------------------------------------------------------------

\* longest doc_filenames list a request carries
MaxDocs == 2

\* last value the wall clock reaches
MaxClock == 1

\* the concurrent callers of POST /v1/runs; each issues one request
Calls == {"c1", "c2"}

\* the caller of the single-caller specification
One == {"c1"}

\* ------------------------------------------------------------------------
\* Configuration (main.py:41-75)
\* ------------------------------------------------------------------------

API_KEY == "changeme"

UPLOAD_BUCKET == "scenepulse-prod-scenepulse-uploads"

\* expiration=timedelta(minutes=30)
ExpirationMinutes == 30

\* .limit(50) of list_runs
ListLimit == 50

\* ------------------------------------------------------------------------
\* Inputs
\* ------------------------------------------------------------------------

\* x-api-key header: absent (<<>>) or present with a value
Headers == {<<>>, <<"wrong">>, <<API_KEY>>}

\* raw filenames as sent by the client
VideoNames == {<<" ">>, <<"v", " ">>}

DocNames == {<<" ">>, <<"a">>, <<" ", "b">>}

Phones == {<<"5","5","5","-","9","8","7","-","1","2","3","4">>,
           <<"+","1"," ","5","5","5"," ","9","8","7"," ","1","2","3","4">>,
           <<>>}

Emails == {<<"a", "@", "b">>, <<"a", "b">>}

\* uuid4().hex as <<first 12 hex digits, remaining 20>>
Uuids == {<<"0123456789ab", "cdef0123456789abcdef">>,
          <<"0123456789ab", "00000000000000000000">>,
          <<"fedcba987654", "3210fedcba9876543210">>}

RECURSIVE SeqsUpTo(_, _)
SeqsUpTo(S, n) ==
    IF n = 0 THEN {<<>>}
    ELSE LET shorter == SeqsUpTo(S, n - 1)
         IN  shorter \cup {Append(s, x) : s \in shorter, x \in S}

DocLists == SeqsUpTo(DocNames, MaxDocs)

\* RunCreateRequest as the client sends it (before pydantic validation)
Payload(e, p, v, d) ==
    [ project_id        |-> "proj",
      company_name      |-> "acme",
      contact_name      |-> "pat",
      contact_email     |-> e,
      contact_phone     |-> p,
      creative_id       |-> "cr1",
      variant           |-> "A",
      video_filename    |-> v,
      original_filename |-> <<>>,
      content_type      |-> "video/mp4",
      label             |-> "",
      notes             |-> "",
      doc_filenames     |-> d ]

Phone10 == <<"5","5","5","-","9","8","7","-","1","2","3","4">>

\* requests of a single caller: every combination of the inputs
Payloads ==
    {Payload(e, p, v, d) :
        e \in Emails, p \in Phones, v \in VideoNames, d \in DocLists}

\* requests of the concurrent callers: no document, or two documents
ConcDocLists == {<<>>, << <<"a">>, <<" ", "b">> >>}

ConcPayloads ==
    {Payload(<<"a", "@", "b">>, Phone10, v, d) :
        v \in VideoNames, d \in ConcDocLists}

\* ------------------------------------------------------------------------
\* Pure helpers
\* ------------------------------------------------------------------------

IsSpace(ch) == ch = " "

RECURSIVE lstrip(_)
lstrip(s) == IF s # <<>> /\ IsSpace(Head(s)) THEN lstrip(Tail(s)) ELSE s

RECURSIVE rstrip(_)
rstrip(s) ==
    IF s # <<>> /\ IsSpace(s[Len(s)]) THEN rstrip(SubSeq(s, 1, Len(s) - 1)) ELSE s

\* str.strip()
strip(s) == rstrip(lstrip(s))

\* the comprehension without its `if f.strip()` filter
RECURSIVE StripAll(_)
StripAll(fs) ==
    IF fs = <<>> THEN <<>> ELSE <<strip(Head(fs))>> \o StripAll(Tail(fs))

\* [f.strip() for f in payload.doc_filenames if f.strip()]
RECURSIVE StripNonEmpty(_)
StripNonEmpty(fs) ==
    IF fs = <<>> THEN <<>>
    ELSE IF strip(Head(fs)) # <<>>
         THEN <<strip(Head(fs))>> \o StripNonEmpty(Tail(fs))
         ELSE StripNonEmpty(Tail(fs))

\* pydantic EmailStr: one "@" with a non-empty local part and domain
EmailStr(e) ==
    /\ Cardinality({i \in 1..Len(e) : e[i] = "@"}) = 1
    /\ e[1] # "@"
    /\ e[Len(e)] # "@"

\* f"run_{uuid.uuid4().hex[:12]}"
RunIdOf(u) == "run_" \o u[1]

RunIds == {RunIdOf(u) : u \in Uuids}

\* f"runs/{run_id}/video/{video_filename}"
VideoBlobName(rid, name) == <<"runs/", rid, "/video/">> \o name

\* the document blob named under the video role
DocBlobNameVideoRole(rid, name) == <<"runs/", rid, "/video/">> \o name

\* f"runs/{run_id}/docs/{doc_name}"
DocBlobName(rid, name) == <<"runs/", rid, "/docs/">> \o name

\* the path without its gs:// scheme
StoragePathNoScheme(blob) == <<UPLOAD_BUCKET, "/">> \o blob

\* f"gs://{UPLOAD_BUCKET}/{blob_name}"
StoragePath(blob) == <<"gs://", UPLOAD_BUCKET, "/">> \o blob

\* blob.generate_signed_url(version="v4", expiration=30 min, method="PUT", ...)
SignedUrl(blob, ctype) ==
    [ blob |-> blob, version |-> "v4", method |-> "PUT",
      minutes |-> ExpirationMinutes, content_type |-> ctype ]

\* SignedURLInfo(...)
SignedURLInfo(name, url, path, key) ==
    [ original_filename |-> name, signed_url |-> url,
      storage_path |-> path, key |-> key ]

\* the key numbered from one
DocKeyOneBased(idx) == "doc_file_" \o ToString(idx + 1)

\* f"doc_file_{idx}"
DocKey(idx) == "doc_file_" \o ToString(idx)

\* `a or b` for an optional / possibly empty character string
OrElse(a, b) == IF a = <<>> THEN b ELSE a

\* `a or ""` for an opaque string
OrEmpty(a) == IF a = "" THEN "" ELSE a

\* datetime.now(timezone.utc)
DateTime(t) == [t |-> t, tz |-> "UTC"]

\* HTTPException(status_code, detail) as the client sees it
HTTPException(status, detail) == [status |-> status, detail |-> detail]

\* ------------------------------------------------------------------------
\* State
\* ------------------------------------------------------------------------

VARIABLES
    pc,                 \* position of each create_run call
    hdr,                \* the call's x-api-key header
    payload,            \* the call's request body
    run_id,             \* local run_id
    now,                \* local now
    video_filename,     \* local video_filename (stripped)
    doc_filenames,      \* local doc_filenames (stripped, non-empty)
    upload_urls,        \* local upload_urls
    doc_storage_paths,  \* local doc_storage_paths
    idx,                \* number of documents already signed
    out,                \* what the call returned to its client
    signLog,            \* per call: the generate_signed_url calls it made
    store,              \* Firestore collection "runs": run_id -> document
    writes,             \* the set() calls the collection received, in order
    clock,              \* wall clock
    reply               \* reply to the latest read / debug request

vars == <<pc, hdr, payload, run_id, now, video_filename, doc_filenames,
          upload_urls, doc_storage_paths, idx, out, signLog, store, writes,
          clock, reply>>

locals == <<run_id, now, video_filename, doc_filenames, upload_urls,
            doc_storage_paths, idx>>

NoOut == [status |-> 0]

Init ==
    /\ pc = [c \in Calls |-> "idle"]
    /\ hdr = [c \in Calls |-> <<>>]
    /\ payload = [c \in Calls |-> <<>>]
    /\ run_id = [c \in Calls |-> ""]
    /\ now = [c \in Calls |-> DateTime(0)]
    /\ video_filename = [c \in Calls |-> <<>>]
    /\ doc_filenames = [c \in Calls |-> <<>>]
    /\ upload_urls = [c \in Calls |-> <<>>]
    /\ doc_storage_paths = [c \in Calls |-> <<>>]
    /\ idx = [c \in Calls |-> 0]
    /\ out = [c \in Calls |-> NoOut]
    /\ signLog = [c \in Calls |-> <<>>]
    /\ store = <<>>
    /\ writes = <<>>
    /\ clock = 0
    /\ reply = [op |-> "none", hdr |-> <<>>, arg |-> "", res |-> NoOut, reads |-> 0]

\* ------------------------------------------------------------------------
\* Auth dependency
\* ------------------------------------------------------------------------

\* only an absent header is refused
BadKeyMissingOnly(h) == h = <<>>

\* request.headers.get(API_KEY_HEADER) != API_KEY
BadKey(h) == h # <<API_KEY>>

AuthError == HTTPException(401, <<"Invalid API key">>)

\* ------------------------------------------------------------------------
\* POST /v1/runs
\* ------------------------------------------------------------------------

\* the emptiness test made on the name as sent, before strip()
VideoFilenameEmptyRaw(p) == p.video_filename = <<>>

\* lines 217-219: `if not video_filename` on the stripped name
VideoFilenameEmpty(p) == strip(p.video_filename) = <<>>

Finish(c, result) ==
    /\ pc' = [pc EXCEPT ![c] = "done"]
    /\ out' = [out EXCEPT ![c] = result]

\* The request arrives: auth dependency, body validation, then lines 212-231
\* up to the first external call.
Begin(c, requests) ==
    /\ pc[c] = "idle"
    /\ \E h \in Headers, p \in requests, u \in Uuids :
        /\ hdr' = [hdr EXCEPT ![c] = h]
        /\ payload' = [payload EXCEPT ![c] = p]
        /\ IF BadKey(h)
           THEN /\ Finish(c, AuthError)
                /\ UNCHANGED locals
           ELSE IF ~EmailStr(p.contact_email)
           THEN /\ Finish(c, HTTPException(422, <<"contact_email">>))
                /\ UNCHANGED locals
           ELSE IF VideoFilenameEmpty(p)
           THEN /\ Finish(c, HTTPException(400, <<"video_filename must not be empty">>))
                /\ UNCHANGED locals
           ELSE /\ run_id' = [run_id EXCEPT ![c] = RunIdOf(u)]
                /\ now' = [now EXCEPT ![c] = DateTime(clock)]
                /\ video_filename' = [video_filename EXCEPT ![c] = strip(p.video_filename)]
                /\ doc_filenames' = [doc_filenames EXCEPT ![c] = StripNonEmpty(p.doc_filenames)]
                /\ pc' = [pc EXCEPT ![c] = "sign_video"]
                /\ UNCHANGED <<upload_urls, doc_storage_paths, idx, out>>
    /\ UNCHANGED <<signLog, store, writes, clock, reply>>

\* the video's signing error is swallowed and the handler goes on
VideoSignRaisedSwallowed(c) ==
    /\ pc' = [pc EXCEPT ![c] =
           IF doc_filenames[c] = <<>> THEN "persist" ELSE "sign_doc"]
    /\ UNCHANGED <<out, upload_urls>>

\* lines 241-245: the except branch of the video signing
VideoSignRaised(c) ==
    /\ Finish(c, HTTPException(500, <<"Could not generate video signed URL">>))
    /\ UNCHANGED upload_urls

\* the except branch swallows the error and the handler goes on to persist
DocSignRaisedSwallowed(c, doc_name) ==
    /\ pc' = [pc EXCEPT ![c] = "persist"]
    /\ UNCHANGED <<out, upload_urls, idx>>

\* the except branch reports the video's name instead of the document's
DocSignRaisedWrongName(c, doc_name) ==
    /\ Finish(c, HTTPException(500,
                    <<"Could not generate doc signed URL for ", video_filename[c]>>))
    /\ UNCHANGED <<upload_urls, idx>>

\* lines 272-276: the except branch of a document signing
DocSignRaised(c, doc_name) ==
    /\ Finish(c, HTTPException(500,
                    <<"Could not generate doc signed URL for ", doc_name>>))
    /\ UNCHANGED <<upload_urls, idx>>

\* lines 233-254: video_blob.generate_signed_url(...) succeeds or raises
SignVideo(c) ==
    /\ pc[c] = "sign_video"
    /\ LET blob == VideoBlobName(run_id[c], video_filename[c])
           path == StoragePath(blob)
           ctype == IF payload[c].content_type = "" THEN "video/*"
                    ELSE payload[c].content_type
       IN \E ok \in BOOLEAN :
            /\ signLog' = [signLog EXCEPT ![c] = Append(@, [blob |-> blob, ok |-> ok])]
            /\ IF ok
               THEN /\ upload_urls' = [upload_urls EXCEPT ![c] =
                           Append(@, SignedURLInfo(video_filename[c],
                                        SignedUrl(blob, ctype), path, "video_file"))]
                    /\ pc' = [pc EXCEPT ![c] =
                           IF doc_filenames[c] = <<>> THEN "persist" ELSE "sign_doc"]
                    /\ UNCHANGED out
               ELSE VideoSignRaised(c)
    /\ UNCHANGED <<hdr, payload, run_id, now, video_filename, doc_filenames,
                   doc_storage_paths, idx, store, writes, clock, reply>>

\* lines 259-285: one iteration of the document loop
SignDoc(c) ==
    /\ pc[c] = "sign_doc"
    /\ LET doc_name == doc_filenames[c][idx[c] + 1]
           blob == DocBlobName(run_id[c], doc_name)
           path == StoragePath(blob)
       IN \E ok \in BOOLEAN :
            /\ doc_storage_paths' = [doc_storage_paths EXCEPT ![c] = Append(@, path)]
            /\ signLog' = [signLog EXCEPT ![c] = Append(@, [blob |-> blob, ok |-> ok])]
            /\ IF ok
               THEN /\ upload_urls' = [upload_urls EXCEPT ![c] =
                           Append(@, SignedURLInfo(doc_name, SignedUrl(blob, ""),
                                                   path, DocKey(idx[c])))]
                    /\ idx' = [idx EXCEPT ![c] = @ + 1]
                    /\ pc' = [pc EXCEPT ![c] =
                           IF idx[c] + 1 = Len(doc_filenames[c])
                           THEN "persist" ELSE "sign_doc"]
                    /\ UNCHANGED out
               ELSE DocSignRaised(c, doc_name)
    /\ UNCHANGED <<hdr, payload, run_id, now, video_filename, doc_filenames,
                   store, writes, clock, reply>>

\* lines 292-317
RunRecord(c) ==
    [ run_id             |-> run_id[c],
      project_id         |-> payload[c].project_id,
      company_name       |-> payload[c].company_name,
      contact_name       |-> payload[c].contact_name,
      contact_email      |-> payload[c].contact_email,
      contact_phone_raw  |-> payload[c].contact_phone,
      creative_id        |-> payload[c].creative_id,
      variant            |-> payload[c].variant,
      label              |-> OrEmpty(payload[c].label),
      notes              |-> OrEmpty(payload[c].notes),
      original_filename  |-> OrElse(payload[c].original_filename,
                                    payload[c].video_filename),
      content_type       |-> payload[c].content_type,
      status             |-> "upload_urls_issued",
      created_at         |-> now[c],
      video_storage_path |-> StoragePath(VideoBlobName(run_id[c], video_filename[c])),
      doc_storage_paths  |-> doc_storage_paths[c],
      doc_filenames      |-> doc_filenames[c],
      upload_bucket      |-> UPLOAD_BUCKET,
      insights           |-> [ lift_vs_baseline |-> 0,
                               recommended_action |-> "No recommendation provided.",
                               summary |-> "No summary provided." ],
      score              |-> 0 ]

\* a set() that replaces the whole collection by the one document
SetReplacingAll(col, id, data) == [r \in {id} |-> data]

\* DocumentReference.set(data): unconditional create-or-replace
Set(col, id, data) ==
    [r \in DOMAIN col \cup {id} |-> IF r = id THEN data ELSE col[r]]

\* the error of set() is swallowed and the handler goes on to respond
SetRaisedSwallowed(c) ==
    /\ pc' = [pc EXCEPT ![c] = "respond"]
    /\ UNCHANGED <<out, store>>

\* line 319: set() raises; nothing catches it, FastAPI answers 500
SetRaised(c) ==
    /\ Finish(c, HTTPException(500, <<"Internal Server Error">>))
    /\ UNCHANGED store

\* lines 290-319: run_doc_ref.set(run_record) commits or raises
Persist(c) ==
    /\ pc[c] = "persist"
    /\ \E ok \in BOOLEAN :
        /\ writes' = Append(writes, [call |-> c, run_id |-> run_id[c], ok |-> ok])
        /\ IF ok
           THEN /\ store' = Set(store, run_id[c], RunRecord(c))
                /\ pc' = [pc EXCEPT ![c] = "respond"]
                /\ UNCHANGED out
           ELSE SetRaised(c)
    /\ UNCHANGED <<hdr, payload, locals, signLog, clock, reply>>

\* the response carrying the video's blob name instead of its gs:// path
RunCreateResponseBlobName(c) ==
    [ run_id             |-> run_id[c],
      project_id         |-> payload[c].project_id,
      video_storage_path |-> VideoBlobName(run_id[c], video_filename[c]),
      doc_storage_paths  |-> doc_storage_paths[c],
      upload_urls        |-> upload_urls[c] ]

\* upload_urls kept in one list shared by all requests
RunCreateResponseSharedUrls(c) ==
    [ run_id             |-> run_id[c],
      project_id         |-> payload[c].project_id,
      video_storage_path |-> StoragePath(VideoBlobName(run_id[c], video_filename[c])),
      doc_storage_paths  |-> doc_storage_paths[c],
      upload_urls        |-> upload_urls["c1"] \o upload_urls["c2"] ]

\* lines 324-330
RunCreateResponse(c) ==
    [ run_id             |-> run_id[c],
      project_id         |-> payload[c].project_id,
      video_storage_path |-> StoragePath(VideoBlobName(run_id[c], video_filename[c])),
      doc_storage_paths  |-> doc_storage_paths[c],
      upload_urls        |-> upload_urls[c] ]

Respond(c) ==
    /\ pc[c] = "respond"
    /\ Finish(c, [status |-> 200, body |-> RunCreateResponse(c)])
    /\ UNCHANGED <<hdr, payload, locals, signLog, store, writes, clock, reply>>

\* The request is abandoned between two steps (client disconnect, instance
\* shutdown): the handler's frame is dropped, nothing is rolled back and no
\* response is delivered.
Cancel(c) ==
    /\ pc[c] \in {"sign_video", "sign_doc", "persist", "respond"}
    /\ pc' = [pc EXCEPT ![c] = "cancelled"]
    /\ now' = [now EXCEPT ![c] = DateTime(0)]
    /\ video_filename' = [video_filename EXCEPT ![c] = <<>>]
    /\ doc_filenames' = [doc_filenames EXCEPT ![c] = <<>>]
    /\ upload_urls' = [upload_urls EXCEPT ![c] = <<>>]
    /\ doc_storage_paths' = [doc_storage_paths EXCEPT ![c] = <<>>]
    /\ idx' = [idx EXCEPT ![c] = 0]
    /\ UNCHANGED <<hdr, payload, run_id, out, signLog, store, writes, clock, reply>>

\* The wall clock advances.  It is read only at line 214, so its ticks are
\* followed only while some call has yet to read it.
Tick ==
    /\ clock < MaxClock
    /\ \E c \in Calls : pc[c] = "idle"
    /\ clock' = clock + 1
    /\ UNCHANGED <<pc, hdr, payload, locals, out, signLog, store, writes, reply>>

\* ------------------------------------------------------------------------
\* Firestore serialization
\* ------------------------------------------------------------------------

\* _serialize_datetime: a naive datetime is taken as UTC, then isoformat()
SerializeDatetime(dt) ==
    LET aware == IF dt.tz = "naive" THEN [dt EXCEPT !.tz = "UTC"] ELSE dt
    IN  [iso |-> aware.t, offset |-> IF aware.tz = "UTC" THEN "+00:00" ELSE aware.tz]

\* _serialize_firestore_doc: created_at is the only datetime field
SerializeFirestoreDoc(id, data) ==
    [ [k \in DOMAIN data |->
          IF k = "created_at" THEN SerializeDatetime(data[k]) ELSE data[k]]
      EXCEPT !.run_id = id ]

\* ------------------------------------------------------------------------
\* Read and debug endpoints; `reads` counts the Firestore reads of the request
\* ------------------------------------------------------------------------

Reply(op, h, arg, res, reads) ==
    [op |-> op, hdr |-> h, arg |-> arg, res |-> res, reads |-> reads]

\* GET /
Root ==
    /\ reply' = Reply("root", <<>>, "",
                      [status |-> 200,
                       body |-> [status |-> "ok", upload_bucket |-> UPLOAD_BUCKET]], 0)
    /\ UNCHANGED <<pc, hdr, payload, locals, out, signLog, store, writes, clock>>

\* GET /secure/ping
SecurePing ==
    /\ \E h \in Headers :
        reply' = Reply("secure_ping", h, "",
                       IF BadKey(h) THEN AuthError
                       ELSE [status |-> 200,
                             body |-> [status |-> "ok", message |-> "secure pong"]], 0)
    /\ UNCHANGED <<pc, hdr, payload, locals, out, signLog, store, writes, clock>>

\* app.routes as list_routes returns them, sorted by path
Routes ==
    << [path |-> "/", methods |-> <<"GET">>],
       [path |-> "/routes", methods |-> <<"GET">>],
       [path |-> "/secure/ping", methods |-> <<"GET">>],
       [path |-> "/v1/runs", methods |-> <<"POST">>],
       [path |-> "/v1/runs", methods |-> <<"GET">>],
       [path |-> "/v1/runs/{run_id}", methods |-> <<"GET">>] >>

\* GET /routes
ListRoutes ==
    /\ \E h \in Headers :
        reply' = Reply("list_routes", h, "",
                       IF BadKey(h) THEN AuthError
                       ELSE [status |-> 200, body |-> [routes |-> Routes]], 0)
    /\ UNCHANGED <<pc, hdr, payload, locals, out, signLog, store, writes, clock>>

Min(a, b) == IF a < b THEN a ELSE b

\* the orders in which order_by("created_at", DESCENDING) may stream `col`
OrderByCreatedAtDesc(col) ==
    LET n == Cardinality(DOMAIN col)
    IN  { s \in [1..n -> DOMAIN col] :
            /\ \A i, j \in 1..n : i # j => s[i] # s[j]
            /\ \A i, j \in 1..n :
                  i < j => col[s[i]].created_at.t >= col[s[j]].created_at.t }

\* GET /v1/runs
ListRunsBody(col, order) ==
    LET ids == SubSeq(order, 1, Min(ListLimit, Len(order)))
    IN  [runs |-> [i \in 1..Len(ids) |-> SerializeFirestoreDoc(ids[i], col[ids[i]])]]

\* ?limit=N as a client may send it; list_runs declares no such parameter
Limits == {0, 1000}

ListRuns ==
    /\ \E h \in Headers, lim \in Limits :
        IF BadKey(h)
        THEN reply' = Reply("list_runs", h, ToString(lim), AuthError, 0)
        ELSE \E order \in OrderByCreatedAtDesc(store) :
               reply' = Reply("list_runs", h, ToString(lim),
                              [status |-> 200, body |-> ListRunsBody(store, order)], 1)
    /\ UNCHANGED <<pc, hdr, payload, locals, out, signLog, store, writes, clock>>

\* run ids a client may ask for
AskedIds == RunIds \cup {"run_000000000000"}

\* get_run without its `if not doc.exists` test: an absent document
\* serializes to a record holding only the run_id
GetRunResultUnchecked(col, rid) ==
    IF rid \notin DOMAIN col
    THEN [status |-> 200, body |-> [run_id |-> rid]]
    ELSE [status |-> 200, body |-> SerializeFirestoreDoc(rid, col[rid])]

\* GET /v1/runs/{run_id}
GetRunResult(col, rid) ==
    IF rid \notin DOMAIN col
    THEN HTTPException(404, <<"Run not found">>)
    ELSE [status |-> 200, body |-> SerializeFirestoreDoc(rid, col[rid])]

\* a get_run whose serialization rewrites the stored document in place
GetRunSerializingInPlace ==
    /\ \E h \in Headers, rid \in AskedIds :
        /\ reply' = IF BadKey(h)
                     THEN Reply("get_run", h, rid, AuthError, 0)
                     ELSE Reply("get_run", h, rid, GetRunResult(store, rid), 1)
        /\ store' = IF BadKey(h) \/ rid \notin DOMAIN store THEN store
                    ELSE [store EXCEPT ![rid] = SerializeFirestoreDoc(rid, @)]
    /\ UNCHANGED <<pc, hdr, payload, locals, out, signLog, writes, clock>>

GetRun ==
    /\ \E h \in Headers, rid \in AskedIds :
        reply' = IF BadKey(h)
                 THEN Reply("get_run", h, rid, AuthError, 0)
                 ELSE Reply("get_run", h, rid, GetRunResult(store, rid), 1)
    /\ UNCHANGED <<pc, hdr, payload, locals, out, signLog, store, writes, clock>>

\* ------------------------------------------------------------------------
\* Specifications
\* ------------------------------------------------------------------------

\* two concurrent registrations, interleaved with reads
Next ==
    \/ \E c \in Calls : Begin(c, ConcPayloads)
    \/ \E c \in Calls : SignVideo(c)
    \/ \E c \in Calls : SignDoc(c)
    \/ \E c \in Calls : Persist(c)
    \/ \E c \in Calls : Respond(c)
    \/ \E c \in Calls : Cancel(c)
    \/ GetRun
    \/ ListRuns
    \/ Tick

Spec == Init /\ [][Next]_vars

\* one registration drawn from every input combination, and every endpoint
NextOne ==
    \/ \E c \in One : Begin(c, Payloads)
    \/ \E c \in One : SignVideo(c)
    \/ \E c \in One : SignDoc(c)
    \/ \E c \in One : Persist(c)
    \/ \E c \in One : Respond(c)
    \/ \E c \in One : Cancel(c)
    \/ Root
    \/ SecurePing
    \/ ListRoutes
    \/ GetRun
    \/ ListRuns
    \/ Tick

SpecOne == Init /\ [][NextOne]_vars

\* ------------------------------------------------------------------------
\* Vocabulary of the properties
\* ------------------------------------------------------------------------

Range(f) == {f[i] : i \in DOMAIN f}

\* positions of the document filenames that are non-empty after trimming
KeptIdx(d) == {j \in DOMAIN d : strip(d[j]) # <<>>}

\* count(doc_filenames entries that are non-empty after trimming)
NonEmptyCount(d) == Cardinality(KeptIdx(d))

\* the i-th non-empty document filename of the request, trimmed
KeptName(d, i) ==
    strip(d[CHOOSE j \in KeptIdx(d) : Cardinality({k \in KeptIdx(d) : k < j}) = i - 1])

\* the blobs a registration has to get signed: the video, then its documents
BlobsToSign(rid, p) ==
    [i \in 1..(1 + NonEmptyCount(p.doc_filenames)) |->
        IF i = 1 THEN <<"runs/", rid, "/video/">> \o strip(p.video_filename)
        ELSE <<"runs/", rid, "/docs/">> \o KeptName(p.doc_filenames, i - 1)]

\* the set() calls of call c
WritesOf(c) == {i \in DOMAIN writes : writes[i].call = c}

\* the call whose set() last committed under run id r
Committed(r) == {i \in DOMAIN writes : writes[i].run_id = r /\ writes[i].ok}

Succeeded(c) == pc[c] = "done" /\ out[c].status = 200

\* ------------------------------------------------------------------------
\* Properties
\* ------------------------------------------------------------------------

\* C1: every set() the collection received came from a call whose signing
\* calls had by then all been made and had all succeeded -- one for the video
\* and one for each non-empty document filename, in order -- and every record
\* in the collection was put there by such a set().
C1_PersistOnlyAfterAllSigned ==
    /\ \A i \in DOMAIN writes :
          LET c == writes[i].call
              due == BlobsToSign(writes[i].run_id, payload[c])
          IN  /\ Len(signLog[c]) = Len(due)
              /\ \A k \in DOMAIN due :
                    signLog[c][k].ok /\ signLog[c][k].blob = due[k]
    /\ \A r \in DOMAIN store : Committed(r) # {}

\* a record is in the collection whose registration signed a video and two
\* documents
C1_Witness ==
    \E i \in DOMAIN writes :
        /\ writes[i].ok
        /\ writes[i].run_id \in DOMAIN store
        /\ Len(signLog[writes[i].call]) = 3

\* C2: a call whose latest signing call failed has returned a 500 error and
\* no response body, the collection has received no set() for its run_id,
\* and when the failing call was for a document the error names that
\* document's filename.
C2_SigningFailureAborts ==
    \A c \in One :
        (signLog[c] # <<>> /\ ~signLog[c][Len(signLog[c])].ok) =>
            /\ pc[c] = "done"
            /\ out[c].status = 500
            /\ DOMAIN out[c] = {"status", "detail"}
            /\ \A i \in DOMAIN writes : writes[i].run_id # run_id[c]
            /\ run_id[c] \notin DOMAIN store
            /\ Len(signLog[c]) > 1 =>
                  out[c].detail =
                    <<"Could not generate doc signed URL for ",
                      KeptName(payload[c].doc_filenames, Len(signLog[c]) - 1)>>
            /\ Len(signLog[c]) = 1 =>
                  out[c].detail = <<"Could not generate video signed URL">>

\* the second of two documents failed to sign
C2_Witness ==
    \E c \in One :
        /\ pc[c] = "done"
        /\ Len(signLog[c]) = 3
        /\ signLog[c][2].ok
        /\ ~signLog[c][3].ok

\* C3 as stated: after a successful registration every path of the persisted
\* record has exactly one descriptor in upload_urls, and every descriptor's
\* storage_path is a path of the record.
C3_OneToOneAsStated ==
    \A c \in One :
        (Succeeded(c) /\ out[c].body.run_id \in DOMAIN store) =>
            LET rec == store[out[c].body.run_id]
                urls == out[c].body.upload_urls
                paths == {rec.video_storage_path} \cup Range(rec.doc_storage_paths)
            IN  /\ \A q \in paths :
                      Cardinality({i \in DOMAIN urls : urls[i].storage_path = q}) = 1
                /\ \A i \in DOMAIN urls : urls[i].storage_path \in paths


\* C4 as stated: once a record is in the collection under a run_id, no step
\* of any registration, get or list call removes or changes it.
C4_NeverChangedAsStated ==
    [][\A r \in DOMAIN store : r \in DOMAIN store' /\ store'[r] = store[r]]_vars

\* C4 amended: a run_id once in the collection stays in it, and the record
\* under it changes only in the set() step of a registration call that drew
\* that same run_id; get, list, cancellation and registrations with other
\* run_ids leave it as it is.
C4_ChangedOnlyBySameRunId ==
    [][\A r \in DOMAIN store :
          /\ r \in DOMAIN store'
          /\ store'[r] # store[r] =>
                \E c \in Calls :
                    /\ run_id[c] = r
                    /\ pc[c] = "persist"
                    /\ pc'[c] = "respond"]_vars

\* a call was cancelled after its set() committed, another call with a
\* different run_id has written since, and both records are in the collection
C4_Witness ==
    \E c1, c2 \in Calls :
        /\ pc[c1] = "cancelled"
        /\ run_id[c1] # run_id[c2]
        /\ \E i, j \in DOMAIN writes :
              /\ i < j
              /\ writes[i] = [call |-> c1, run_id |-> run_id[c1], ok |-> TRUE]
              /\ writes[j] = [call |-> c2, run_id |-> run_id[c2], ok |-> TRUE]
        /\ {run_id[c1], run_id[c2]} \subseteq DOMAIN store

\* C5: after a successful registration upload_urls has one entry more than
\* the request has document filenames that are non-empty after trimming, and
\* doc_storage_paths has exactly that many entries in the response and in
\* the persisted record.
C5_Counts ==
    \A c \in One :
        Succeeded(c) =>
            LET k == NonEmptyCount(payload[c].doc_filenames)
                body == out[c].body
            IN  /\ Len(body.upload_urls) = 1 + k
                /\ Len(body.doc_storage_paths) = k
                /\ body.run_id \in DOMAIN store
                /\ Len(store[body.run_id].doc_storage_paths) = k

\* a registration that sent one blank and one real document name succeeded
C5_Witness ==
    \E c \in One :
        /\ Succeeded(c)
        /\ Len(payload[c].doc_filenames) = 2
        /\ NonEmptyCount(payload[c].doc_filenames) = 1

\* C6: after a successful registration with k non-empty document filenames
\* the keys of upload_urls are video_file, doc_file_0, ..., doc_file_{k-1} in
\* that order, and the descriptor keyed doc_file_i is the one of the i-th
\* non-empty filename in input order.
C6_Keys ==
    \A c \in One :
        Succeeded(c) =>
            LET d == payload[c].doc_filenames
                urls == out[c].body.upload_urls
            IN  /\ Len(urls) = 1 + NonEmptyCount(d)
                /\ urls[1].key = "video_file"
                /\ \A i \in 1..NonEmptyCount(d) :
                      /\ urls[i + 1].key = "doc_file_" \o ToString(i - 1)
                      /\ urls[i + 1].original_filename = KeptName(d, i)
                /\ \A i, j \in DOMAIN urls : i # j => urls[i].key # urls[j].key

\* a registration with two non-empty document names succeeded
C6_Witness ==
    \E c \in One :
        /\ Succeeded(c)
        /\ Len(out[c].body.upload_urls) = 3
        /\ out[c].body.upload_urls[3].key = "doc_file_1"

\* C7: a request whose video_filename is empty after trimming or whose
\* contact email is malformed has been rejected (400 or 422; 401 when its API
\* key is bad as well) with no signing call made, no set() received and the
\* collection unchanged.
C7_ValidationBeforeExternalCalls ==
    \A c \in One :
        ( /\ pc[c] # "idle"
          /\ \/ strip(payload[c].video_filename) = <<>>
             \/ ~EmailStr(payload[c].contact_email) ) =>
            /\ pc[c] = "done"
            /\ out[c].status \in (IF hdr[c] = <<API_KEY>> THEN {400, 422} ELSE {401})
            /\ signLog[c] = <<>>
            /\ writes = <<>>
            /\ store = <<>>

\* a request with a valid key and email and a blank video name was rejected
C7_Witness ==
    \E c \in One :
        /\ pc[c] = "done"
        /\ hdr[c] = <<API_KEY>>
        /\ payload[c].video_filename = <<" ">>
        /\ out[c].status = 400

\* the call whose set() was the last to commit under run id r
LastCommitter(r) ==
    writes[CHOOSE i \in Committed(r) : \A j \in Committed(r) : j <= i].call

\* C8: a get_run with a valid key for the run_id a successful create_run
\* returned, made while that call's record is the last one written under the
\* run_id, returns 200 and a record whose video_storage_path and
\* doc_storage_paths equal those of the registration response.
C8_GetReturnsCreatedPaths ==
    [][\A c \in Calls :
          ( /\ Succeeded(c)
            /\ LastCommitter(out[c].body.run_id) = c
            /\ reply' # reply
            /\ reply'.op = "get_run"
            /\ reply'.hdr = <<API_KEY>>
            /\ reply'.arg = out[c].body.run_id
            /\ UNCHANGED <<pc, hdr, payload, locals, out, signLog, store,
                           writes, clock>> ) =>
              /\ reply'.res.status = 200
              /\ reply'.res.body.video_storage_path = out[c].body.video_storage_path
              /\ reply'.res.body.doc_storage_paths = out[c].body.doc_storage_paths
              /\ reply'.res.body.run_id = out[c].body.run_id]_vars

\* a run registered with two documents was fetched by its returned run_id
C8_Witness ==
    \E c \in Calls :
        /\ Succeeded(c)
        /\ Len(out[c].body.doc_storage_paths) = 2
        /\ reply.op = "get_run"
        /\ reply.arg = out[c].body.run_id
        /\ reply.res.status = 200
        /\ reply.res.body.doc_storage_paths = out[c].body.doc_storage_paths

\* the endpoints behind Depends(require_api_key), create_run apart
ProtectedReads == {"secure_ping", "list_routes", "list_runs", "get_run"}

\* C9: a create_run, get_run, list_runs, secure_ping or list_routes request
\* whose x-api-key is absent or differs from API_KEY gets the one 401 error;
\* the step that rejects it makes no signing call, no Firestore read and no
\* set(), and a rejected create_run has made none at any later time.
C9_AuthBeforeDomainLogic ==
    [][ /\ \A c \in One :
              (pc'[c] # "idle" /\ hdr'[c] # <<API_KEY>>) =>
                  /\ pc'[c] = "done"
                  /\ out'[c] = [status |-> 401, detail |-> <<"Invalid API key">>]
                  /\ signLog'[c] = <<>>
                  /\ \A i \in DOMAIN writes' : writes'[i].call # c
                  /\ pc[c] = "idle" => UNCHANGED <<signLog, store, writes>>
        /\ ( /\ reply' # reply
             /\ reply'.op \in ProtectedReads
             /\ reply'.hdr # <<API_KEY>> ) =>
                  /\ reply'.res = [status |-> 401, detail |-> <<"Invalid API key">>]
                  /\ reply'.reads = 0
                  /\ UNCHANGED <<signLog, store, writes>> ]_vars

\* a create_run with a wrong key and a list_runs with no key were both refused
C9_Witness ==
    \E c \in One :
        /\ pc[c] = "done"
        /\ hdr[c] = <<"wrong">>
        /\ out[c].status = 401
        /\ reply.op = "list_runs"
        /\ reply.hdr = <<>>
        /\ reply.res.status = 401

Digits == {"0", "1", "2", "3", "4", "5", "6", "7", "8", "9"}

IsDigit(ch) == ch \in Digits

\* the phone as section 4.4 of the specification normalizes it
NormalizedPhone(raw) ==
    LET d == SelectSeq(raw, IsDigit)
    IN  IF Len(d) = 10
        THEN <<"(">> \o SubSeq(d, 1, 3) \o <<")", " ">> \o SubSeq(d, 4, 6)
             \o <<"-">> \o SubSeq(d, 7, 10)
        ELSE raw

\* C10 as stated: every persisted record holds contact_phone_raw as sent and
\* a contact_phone that is (DDD) DDD-DDDD when the raw value has exactly ten
\* digits and the raw value otherwise.
C10_PhoneNormalizedAsStated ==
    \A r \in DOMAIN store :
        /\ {"contact_phone_raw", "contact_phone"} \subseteq DOMAIN store[r]
        /\ store[r].contact_phone = NormalizedPhone(store[r].contact_phone_raw)
        /\ store[r].contact_phone_raw \in Phones

\* the limit clamped into [1, 100]
Clamped(lim) == IF lim < 1 THEN 1 ELSE IF lim > 100 THEN 100 ELSE lim

\* C11 as stated: a list_runs reply to ?limit=N holds at most N clamped into
\* [1, 100] records, sorted by created_at descending.
C11_LimitClampedAsStated ==
    (reply.op = "list_runs" /\ reply.res.status = 200) =>
        LET runs == reply.res.body.runs
        IN  /\ \A lim \in Limits :
                  reply.arg = ToString(lim) => Len(runs) <= Clamped(lim)
            /\ \A i, j \in DOMAIN runs :
                  i < j => runs[i].created_at.iso >= runs[j].created_at.iso

\* C12: a call whose set() failed has returned a 500 error and no response
\* body, has made exactly one set() call, and no record is in the collection
\* under its run_id.
C12_WriteFailureSurfaced ==
    \A c \in One :
        (\E i \in WritesOf(c) : ~writes[i].ok) =>
            /\ pc[c] = "done"
            /\ out[c].status = 500
            /\ DOMAIN out[c] = {"status", "detail"}
            /\ Cardinality(WritesOf(c)) = 1
            /\ run_id[c] \notin DOMAIN store

\* the set() of a registration with two signed documents failed
C12_Witness ==
    \E c \in One :
        /\ Len(signLog[c]) = 3
        /\ signLog[c][3].ok
        /\ writes = <<[call |-> c, run_id |-> run_id[c], ok |-> FALSE]>>
        /\ out[c].status = 500

\* a step of a read endpoint: only the reply changes
ReadStep ==
    /\ reply' # reply
    /\ UNCHANGED <<pc, hdr, payload, locals, out, signLog, store, writes, clock>>

\* the statuses of the validation, signing, persistence and auth errors
OtherErrors == {400, 401, 422, 500}

\* C13: a get_run with a valid key returns 200 and the record stored under
\* the run_id exactly when some registration's set() has committed under that
\* run_id; for every other run_id -- that of a registration aborted by a
\* signing failure included -- it returns the 404 "Run not found" error.
C13_GetFoundIffPersisted ==
    [][(ReadStep /\ reply'.op = "get_run" /\ reply'.hdr = <<API_KEY>>) =>
          LET rid == reply'.arg
              res == reply'.res
          IN  IF Committed(rid) # {}
              THEN /\ res.status = 200
                   /\ DOMAIN res.body = DOMAIN store[rid]
                   /\ res.body.run_id = rid
                   /\ \A k \in DOMAIN store[rid] \ {"created_at", "run_id"} :
                         res.body[k] = store[rid][k]
                   /\ res.body.created_at.iso = store[rid].created_at.t
              ELSE /\ res = [status |-> 404, detail |-> <<"Run not found">>]
                   /\ res.status \notin OtherErrors]_vars

\* the run_id of a registration that aborted on a signing failure was fetched
\* and not found
C13_Witness ==
    \E c \in Calls :
        /\ pc[c] = "done"
        /\ out[c].status = 500
        /\ signLog[c] # <<>>
        /\ ~signLog[c][Len(signLog[c])].ok
        /\ reply.op = "get_run"
        /\ reply.hdr = <<API_KEY>>
        /\ reply.arg = run_id[c]
        /\ reply.res.status = 404

\* C14: the signing calls a create_run has made are, in order, those for
\* its video and then for its non-empty document filenames in input order;
\* they number at most 1 + len(doc_filenames), none follows a failed one, and
\* a call that succeeded has made all of them and then exactly one set(),
\* keyed by its run_id.
C14_SigningOrderThenOneWrite ==
    \A c \in One :
        signLog[c] # <<>> =>
            LET due == BlobsToSign(run_id[c], payload[c])
                n == Len(signLog[c])
            IN  /\ n <= Len(due)
                /\ n <= 1 + Len(payload[c].doc_filenames)
                /\ \A k \in 1..n : signLog[c][k].blob = due[k]
                /\ \A k \in 1..(n - 1) : signLog[c][k].ok
                /\ WritesOf(c) # {} => (n = Len(due) /\ signLog[c][n].ok)
                /\ Succeeded(c) =>
                      /\ Cardinality(WritesOf(c)) = 1
                      /\ \A i \in WritesOf(c) :
                            writes[i].ok /\ writes[i].run_id = out[c].body.run_id

\* a registration whose list held a blank and a real document name made two
\* signing calls and one set(), and succeeded
C14_Witness ==
    \E c \in One :
        /\ Succeeded(c)
        /\ Len(payload[c].doc_filenames) = 2
        /\ Len(signLog[c]) = 2
        /\ Len(writes) = 1

\* gs://<bucket>/runs/<run_id>/<role>/<filename>
PathOf(rid, role, name) ==
    <<"gs://", "scenepulse-prod-scenepulse-uploads", "/", "runs/", rid>>
    \o <<"/" \o role \o "/">> \o name

\* C15: in the response of a successful registration and in the record it
\* persisted, the video path is gs://<bucket>/runs/<run_id>/video/<trimmed
\* video filename> and the i-th document path is
\* gs://<bucket>/runs/<run_id>/docs/<i-th trimmed non-empty document
\* filename>, <run_id> being the run_id the response returns; every
\* descriptor of upload_urls carries the same path.
C15_PathsFromRunIdRoleName ==
    \A c \in One :
        Succeeded(c) =>
            LET body == out[c].body
                rid == body.run_id
                d == payload[c].doc_filenames
                vpath == PathOf(rid, "video", strip(payload[c].video_filename))
                dpaths == [i \in 1..NonEmptyCount(d) |->
                              PathOf(rid, "docs", KeptName(d, i))]
            IN  /\ rid \in RunIds
                /\ body.video_storage_path = vpath
                /\ body.doc_storage_paths = dpaths
                /\ body.upload_urls[1].storage_path = vpath
                /\ \A i \in DOMAIN dpaths :
                      body.upload_urls[i + 1].storage_path = dpaths[i]
                /\ rid \in DOMAIN store
                /\ store[rid].run_id = rid
                /\ store[rid].video_storage_path = vpath
                /\ store[rid].doc_storage_paths = dpaths

\* a registration whose video and document names both needed trimming
\* succeeded
C15_Witness ==
    \E c \in One :
        /\ Succeeded(c)
        /\ payload[c].video_filename = <<"v", " ">>
        /\ payload[c].doc_filenames = << <<" ", "b">>, <<"a">> >>

\* what call c returns when it runs alone, from its own request, run_id and
\* the outcomes of its own signing and set() calls
AloneOutcome(c) ==
    LET p == payload[c]
        d == p.doc_filenames
        n == Len(signLog[c])
        vpath == PathOf(run_id[c], "video", strip(p.video_filename))
        dpaths == [i \in 1..NonEmptyCount(d) |->
                      PathOf(run_id[c], "docs", KeptName(d, i))]
    IN  IF hdr[c] # <<API_KEY>> THEN [status |-> 401]
        ELSE IF ~EmailStr(p.contact_email) THEN [status |-> 422]
        ELSE IF strip(p.video_filename) = <<>> THEN [status |-> 400]
        ELSE IF ~signLog[c][n].ok THEN [status |-> 500]
        ELSE IF \E i \in WritesOf(c) : ~writes[i].ok THEN [status |-> 500]
        ELSE [status |-> 200, run_id |-> run_id[c],
              video_storage_path |-> vpath, doc_storage_paths |-> dpaths,
              url_paths |-> <<vpath>> \o dpaths]

\* the part of a reply that AloneOutcome describes
Observed(o) ==
    IF o.status # 200 THEN [status |-> o.status]
    ELSE [status |-> 200, run_id |-> o.body.run_id,
          video_storage_path |-> o.body.video_storage_path,
          doc_storage_paths |-> o.body.doc_storage_paths,
          url_paths |-> [i \in DOMAIN o.body.upload_urls |->
                            o.body.upload_urls[i].storage_path]]

\* C16: of two interleaved create_run calls with distinct run_ids, each one
\* that has returned returned what it returns alone, and each one whose set()
\* committed has its own record in the collection -- built from its own
\* request, run_id and timestamp -- whatever the other call's signing and
\* set() calls did.
C16_CallsIndependent ==
    \A c, o \in Calls :
        (c # o /\ run_id[c] # run_id[o]) =>
            /\ pc[c] = "done" => Observed(out[c]) = AloneOutcome(c)
            /\ (\E i \in WritesOf(c) : writes[i].ok) =>
                  /\ run_id[c] \in DOMAIN store
                  /\ LET rec == store[run_id[c]]
                         d == payload[c].doc_filenames
                     IN  /\ rec.run_id = run_id[c]
                         /\ rec.contact_phone_raw = payload[c].contact_phone
                         /\ rec.original_filename = payload[c].video_filename
                         /\ rec.video_storage_path =
                              PathOf(run_id[c], "video", strip(payload[c].video_filename))
                         /\ rec.doc_filenames =
                              [i \in 1..NonEmptyCount(d) |-> KeptName(d, i)]
                         /\ rec.doc_storage_paths =
                              [i \in 1..NonEmptyCount(d) |->
                                  PathOf(run_id[c], "docs", KeptName(d, i))]
                         /\ pc[c] # "cancelled" => rec.created_at = now[c]

\* one call's record was written between the other call's signing calls;
\* the other call then failed to sign a document, and the first succeeded
C16_Witness ==
    \E c, o \in Calls :
        /\ run_id[c] # run_id[o]
        /\ Succeeded(c)
        /\ Len(out[c].body.doc_storage_paths) = 2
        /\ pc[o] = "done"
        /\ Len(signLog[o]) = 2
        /\ ~signLog[o][2].ok
        /\ run_id[c] \in DOMAIN store

\* both calls succeeded and both records are in the collection
C16_BothStored ==
    \E c, o \in Calls :
        /\ c # o
        /\ Succeeded(c) /\ Succeeded(o)
        /\ run_id[c] # run_id[o]
        /\ {run_id[c], run_id[o]} \subseteq DOMAIN store

\* C17: a get_run or list_runs step, whatever it returns, leaves the
\* collection as it was and makes no set() and no signing call; hence the
\* result of a get_run is the one the same get_run returns when repeated in
\* the state it leaves behind.
C17_ReadsAreReadOnly ==
    [][(reply' # reply /\ reply'.op \in {"get_run", "list_runs"}) =>
          /\ UNCHANGED <<store, writes, signLog>>
          /\ reply'.op = "get_run" =>
                reply'.res =
                    IF reply'.hdr # <<API_KEY>>
                    THEN [status |-> 401, detail |-> <<"Invalid API key">>]
                    ELSE GetRunResult(store', reply'.arg)]_vars

\* a stored run was fetched and its document still holds the datetime
C17_Witness ==
    /\ reply.op = "get_run"
    /\ reply.res.status = 200
    /\ reply.arg \in DOMAIN store
    /\ store[reply.arg].created_at = DateTime(store[reply.arg].created_at.t)
    /\ reply.res.body.created_at.iso = store[reply.arg].created_at.t

\* C18: in every persisted record doc_filenames and doc_storage_paths have
\* the same length, doc_storage_paths[i] is the docs path of the record's
\* run_id and doc_filenames[i], and doc_filenames are the trimmed non-empty
\* document filenames of the request that wrote the record, in input order.
C18_DocNamesAlignedWithPaths ==
    \A r \in DOMAIN store :
        LET rec == store[r]
            d == payload[LastCommitter(r)].doc_filenames
        IN  /\ rec.run_id = r
            /\ Len(rec.doc_filenames) = Len(rec.doc_storage_paths)
            /\ \A i \in DOMAIN rec.doc_filenames :
                  rec.doc_storage_paths[i] =
                      PathOf(rec.run_id, "docs", rec.doc_filenames[i])
            /\ Len(rec.doc_filenames) = NonEmptyCount(d)
            /\ \A i \in DOMAIN rec.doc_filenames :
                  rec.doc_filenames[i] = KeptName(d, i)

\* a record was persisted for a request with two different document names,
\* the first of which needed trimming
C18_Witness ==
    \E r \in DOMAIN store :
        /\ store[r].doc_filenames = << <<"b">>, <<"a">> >>
        /\ payload[LastCommitter(r)].doc_filenames = << <<" ", "b">>, <<"a">> >>

====
